---- MODULE Spec2Model ----
(***************************************************************************)
(* Model of server.js: the POST /api/process-image pipeline.               *)
(*                                                                         *)
(*   limiter (app.use)  ->  upload.single('image')  ->  async handler      *)
(*                                                                         *)
(* Strings on which the code performs substring tests (regex test,         *)
(* String.prototype.includes) are sequences of tokens, so that "contains"  *)
(* and "equals" are different operations.  All other strings are plain.    *)
(* Each slot is one connection; a slot whose request has finished can      *)
(* carry a new request.  The runtime is assumed to provide the global      *)
(* FormData used on line 107.                                              *)
(***************************************************************************)
EXTENDS Integers, Sequences, FiniteSets, TLC

VARIABLES now, hits, resetTime, disk, pc, req, filePath, params, calls, replies, resp

vars == <<now, hits, resetTime, disk, pc, req, filePath, params, calls, replies, resp>>

(* ------------------------------ bounds -------------------------------- *)
NumSlots == 2
TickMs == 120000
MaxTime == 120000
MaxHits == 12

Slots == 1..NumSlots
\* one connection handled at a time (Spec) or all of them (ConcSpec)
Sequential == {1}
Client == "10.0.0.1"
Addrs == {Client, "10.0.0.2"}

(* ------------------------- program constants -------------------------- *)
windowMs == 120 * 1000
max == 10
fileSize == 10 * 1024 * 1024
tooManyMessage == <<"Too many requests, please try again later.">>

(* ------------------------------ strings ------------------------------- *)
toLowerCase(s) ==
  [i \in 1..Len(s) |->
     CASE s[i] = "PNG" -> "png"
       [] s[i] = "JPG" -> "jpg"
       [] s[i] = "JPEG" -> "jpeg"
       [] s[i] = "GIF" -> "gif"
       [] OTHER -> s[i]]

includes(s, sub) ==
  \E i \in 1..(Len(s) + 1 - Len(sub)) : SubSeq(s, i, i + Len(sub) - 1) = sub

\* /jpeg|jpg|png/.test(s): an unanchored match of one of the alternatives.
filetypesTest(s) ==
  includes(s, <<"jpeg">>) \/ includes(s, <<"jpg">>) \/ includes(s, <<"png">>)

\* path.extname: from the last "." to the end, "" when there is none.
extname(name) ==
  LET dots == {i \in 1..Len(name) : name[i] = "."}
  IN IF dots = {} THEN <<>>
     ELSE LET last == CHOOSE i \in dots : \A j \in dots : j <= i
          IN SubSeq(name, last, Len(name))

(* ------------------------------ objects ------------------------------- *)
EmptyMap == [k \in {} |-> 0]

\* { ...a, ...b }
spread(a, b) ==
  [k \in DOMAIN a \cup DOMAIN b |-> IF k \in DOMAIN b THEN b[k] ELSE a[k]]

\* comfyui_workflows.json, parsed once at start-up; the file's content is an
\* instance with one function type.
comfyuiWorkflows ==
  [upscale |-> [function |-> "upscale_workflow", params |-> [a |-> 1, b |-> 2]]]

\* Property names every object parsed by JSON.parse inherits.
ObjectPrototype == {"constructor", "toString", "valueOf", "hasOwnProperty"}

\* comfyuiWorkflows[functionType]: an own property, else an inherited one,
\* else undefined.  An inherited value is a function: truthy, and its
\* .params and .function are undefined.
lookupWorkflow(functionType) ==
  IF functionType \in DOMAIN comfyuiWorkflows
  THEN [truthy |-> TRUE, function |-> comfyuiWorkflows[functionType].function,
        params |-> comfyuiWorkflows[functionType].params]
  ELSE IF functionType \in ObjectPrototype
  THEN [truthy |-> TRUE, function |-> "undefined", params |-> EmptyMap]
  ELSE [truthy |-> FALSE, function |-> "undefined", params |-> EmptyMap]

(* ------------------------------ requests ------------------------------ *)
SmallPng == [originalname |-> <<"photo", ".", "png">>,
             mimetype |-> <<"image/", "png">>, size |-> 1024 * 1024]
BigPng   == [originalname |-> <<"huge", ".", "png">>,
             mimetype |-> <<"image/", "png">>, size |-> 11 * 1024 * 1024]
Gif      == [originalname |-> <<"anim", ".", "gif">>,
             mimetype |-> <<"image/", "gif">>, size |-> 1024 * 1024]

\* A multipart request: files (field "image") and text fields (req.body).
RequestInputs ==
  { [files |-> <<SmallPng>>,
     body |-> [functionType |-> "upscale", processingParams |-> [b |-> 9, c |-> 3]]],
    [files |-> <<SmallPng>>, body |-> [functionType |-> "upscale"]],
    [files |-> <<SmallPng>>, body |-> [functionType |-> "nonexistent"]],
    [files |-> <<SmallPng>>, body |-> [functionType |-> "constructor"]],
    [files |-> <<SmallPng>>, body |-> EmptyMap],
    [files |-> <<>>, body |-> [functionType |-> "upscale"]],
    [files |-> <<Gif>>, body |-> [functionType |-> "upscale"]],
    [files |-> <<BigPng>>, body |-> [functionType |-> "upscale"]] }

NoRequest == [files |-> <<>>, body |-> EmptyMap]

\* req.body.functionType is falsy
noFunctionType(body) == "functionType" \notin DOMAIN body \/ body.functionType = ""

processingParamsOf(body) ==
  IF "processingParams" \in DOMAIN body THEN body.processingParams ELSE EmptyMap

(* ------------------------------ responses ----------------------------- *)
Response(status, error, message, resultUrl) ==
  [status |-> status, error |-> error, message |-> message, resultUrl |-> resultUrl]

\* express-rate-limit's answer
TooMany == Response(429, "", tooManyMessage, "")

\* Express's default error handler: an error passed to next(err) that has no
\* status is answered with 500 and an HTML page; the route handler is skipped.
DefaultError(message) == Response(500, "<html>", message, "")

(* ------------------------------ limiter ------------------------------- *)
limitExceeded_OffByOne(totalHits) == totalHits > max + 1

\* the limiter answers instead of calling next()
limitExceeded(totalHits) == totalHits > max

(* ------------------------------ upload -------------------------------- *)
fileFilter(file) ==
  LET ext == filetypesTest(toLowerCase(extname(file.originalname)))
      mimetype == filetypesTest(file.mimetype)
  IN mimetype /\ ext

\* storage.destination + storage.filename
storagePath(t, file) == [dir |-> "uploads/", time |-> t, ext |-> extname(file.originalname)]

NoPath == [dir |-> "", time |-> 0 - 1, ext |-> <<>>]

(* ------------------------------ handler ------------------------------- *)
catchBlock_NoElse(message) ==
  IF message = <<"Error: Images Only!">>
  THEN <<Response(400, "Invalid file format", message, "")>>
  ELSE IF includes(message, <<"File too large">>)
  THEN <<Response(413, "File size exceeds limit", message, "")>>
  ELSE <<>>

\* the catch block: the responses it sends for an error with this message
catchBlock(message) ==
  IF message = <<"Error: Images Only!">>
  THEN <<Response(400, "Invalid file format", message, "")>>
  ELSE IF includes(message, <<"File too large">>)
  THEN <<Response(413, "File size exceeds limit", message, "")>>
  ELSE <<Response(500, "Internal Server Error", message, "")>>

\* What an awaited provider function yields: a value or a thrown error.
Return(v) == [threw |-> FALSE, value |-> v, message |-> <<>>]
Throw(m) == [threw |-> TRUE, value |-> "", message |-> m]

\* axios.post settles: rejected (transport error, non-2xx) or resolved with
\* the provider's envelope in response.data.
Rejected == [rejected |-> TRUE, code |-> 0 - 1, msg |-> <<"Network Error">>]

\* lines 116-120
uploadImageToRunningHub(r) ==
  IF r.rejected THEN Throw(r.msg)
  ELSE IF r.code # 0 THEN Throw(r.msg)
  ELSE Return(r.data.fileUrl)

\* lines 142-146
createTaskOnRunningHub(r) ==
  IF r.rejected THEN Throw(r.msg)
  ELSE IF r.code # 0 THEN Throw(r.msg)
  ELSE Return(r.data.taskId)

getTaskResultFromRunningHub_Optional(r) ==
  IF r.rejected THEN Throw(r.msg)
  ELSE IF r.code # 0 THEN Throw(r.msg)
  ELSE IF Len(r.data) = 0 THEN Return("undefined")
  ELSE Return(r.data[1].fileUrl)

\* lines 158-162; data[0] of an empty list is undefined and reading its
\* fileUrl throws a TypeError
getTaskResultFromRunningHub(r) ==
  IF r.rejected THEN Throw(r.msg)
  ELSE IF r.code # 0 THEN Throw(r.msg)
  ELSE IF Len(r.data) = 0
  THEN Throw(<<"Cannot read properties of undefined (reading 'fileUrl')">>)
  ELSE Return(r.data[1].fileUrl)

ProviderMsgs == { <<"bad workflow">>, <<"upload failed:", "File too large">>,
                  <<"Error: Images Only!">> }

Failures == { [rejected |-> FALSE, code |-> 1, msg |-> m] : m \in ProviderMsgs }

UploadReplies ==
  { [rejected |-> FALSE, code |-> 0, msg |-> <<"success">>,
     data |-> [fileUrl |-> "https://provider/asset.png"]], Rejected } \cup Failures

CreateReplies ==
  { [rejected |-> FALSE, code |-> 0, msg |-> <<"success">>,
     data |-> [taskId |-> "task-1"]], Rejected } \cup Failures

FetchReplies ==
  { [rejected |-> FALSE, code |-> 0, msg |-> <<"success">>,
     data |-> <<[fileUrl |-> "https://provider/result.png"]>>],
    [rejected |-> FALSE, code |-> 0, msg |-> <<"success">>, data |-> <<>>],
    Rejected } \cup Failures

\* the three outbound calls as issued with axios.post
UploadCall(path) == [op |-> "upload", body |-> [file |-> path]]
CreateCall(imageUrl) ==
  [op |-> "create",
   body |-> [workflowId |-> "YOUR_WORKFLOW_ID", apiKey |-> "YOUR_API_KEY",
             nodeInfoList |-> <<[nodeId |-> "YOUR_NODE_ID", fieldName |-> "image",
                                 fieldValue |-> imageUrl]>>]]
FetchCall(taskId) == [op |-> "fetch", body |-> [taskId |-> taskId, apiKey |-> "YOUR_API_KEY"]]

(* ------------------------------- state -------------------------------- *)
Init ==
  /\ now = 0
  /\ hits = [a \in Addrs |-> 0]
  /\ resetTime = [a \in Addrs |-> 0]
  /\ disk = {}
  /\ pc = [s \in Slots |-> "idle"]
  /\ req = [s \in Slots |-> [addr |-> "none", input |-> NoRequest]]
  /\ filePath = [s \in Slots |-> NoPath]
  /\ params = [s \in Slots |-> EmptyMap]
  /\ calls = [s \in Slots |-> <<>>]
  /\ replies = [s \in Slots |-> <<>>]
  /\ resp = [s \in Slots |-> <<>>]

\* time passes
Tick ==
  /\ now < MaxTime
  /\ now' = now + TickMs
  /\ UNCHANGED <<hits, resetTime, disk, pc, req, filePath, params, calls, replies, resp>>

\* A request arrives and passes through the limiter mounted on the path.
Request(s, a, input) ==
  /\ pc[s] \in {"idle", "done"}
  /\ now >= resetTime[a] \/ hits[a] < MaxHits
  /\ LET fresh == now >= resetTime[a]
         totalHits == IF fresh THEN 1 ELSE hits[a] + 1
     IN /\ hits' = [hits EXCEPT ![a] = totalHits]
        /\ resetTime' = [resetTime EXCEPT ![a] = IF fresh THEN now + windowMs ELSE @]
        /\ IF limitExceeded(totalHits)
           THEN /\ resp' = [resp EXCEPT ![s] = <<TooMany>>]
                /\ pc' = [pc EXCEPT ![s] = "done"]
           ELSE /\ resp' = [resp EXCEPT ![s] = <<>>]
                /\ pc' = [pc EXCEPT ![s] = "multer"]
  /\ req' = [req EXCEPT ![s] = [addr |-> a, input |-> input]]
  /\ filePath' = [filePath EXCEPT ![s] = NoPath]
  /\ params' = [params EXCEPT ![s] = EmptyMap]
  /\ calls' = [calls EXCEPT ![s] = <<>>]
  /\ replies' = [replies EXCEPT ![s] = <<>>]
  /\ UNCHANGED <<now, disk>>

\* The handler from its entry to the first await (lines 56-79, 106-110);
\* it runs in the same turn of the event loop in which multer calls next().
handlerEntry(s, path) ==
  LET body == req[s].input.body
  IN IF path = NoPath
     THEN /\ resp' = [resp EXCEPT ![s] = <<Response(400, "No file uploaded", <<>>, "")>>]
          /\ pc' = [pc EXCEPT ![s] = "done"]
          /\ UNCHANGED <<params, calls>>
     ELSE IF noFunctionType(body)
     THEN /\ resp' = [resp EXCEPT ![s] = <<Response(400, "Function type is required", <<>>, "")>>]
          /\ pc' = [pc EXCEPT ![s] = "done"]
          /\ UNCHANGED <<params, calls>>
     ELSE LET workflow == lookupWorkflow(body.functionType)
          IN IF ~workflow.truthy
             THEN /\ resp' = [resp EXCEPT ![s] = <<Response(400, "Invalid function type", <<>>, "")>>]
                  /\ pc' = [pc EXCEPT ![s] = "done"]
                  /\ UNCHANGED <<params, calls>>
             ELSE /\ params' = [params EXCEPT ![s] = spread(workflow.params, processingParamsOf(body))]
                  /\ calls' = [calls EXCEPT ![s] = <<UploadCall(path)>>]
                  /\ pc' = [pc EXCEPT ![s] = "awaitUpload"]
                  /\ UNCHANGED resp

\* upload.single('image') finishes reading the multipart body: it either
\* passes an error to next(err), which skips the handler, or calls next().
Upload(s) ==
  /\ pc[s] = "multer"
  /\ LET files == req[s].input.files
     IN IF files = <<>>
        THEN /\ handlerEntry(s, NoPath)
             /\ UNCHANGED <<disk, filePath>>
        ELSE LET file == files[1]
                 path == storagePath(now, file)
             IN IF ~fileFilter(file)
                THEN /\ resp' = [resp EXCEPT ![s] = <<DefaultError(<<"Error: Images Only!">>)>>]
                     /\ pc' = [pc EXCEPT ![s] = "done"]
                     /\ UNCHANGED <<disk, filePath, params, calls>>
                ELSE IF file.size > fileSize
                THEN \* the partial file is written, then removed when the
                     \* limit is hit, and the error goes to next(err)
                     /\ disk' = disk \ {path}
                     /\ resp' = [resp EXCEPT ![s] = <<DefaultError(<<"File too large">>)>>]
                     /\ pc' = [pc EXCEPT ![s] = "done"]
                     /\ UNCHANGED <<filePath, params, calls>>
                ELSE /\ disk' = disk \cup {path}
                     /\ filePath' = [filePath EXCEPT ![s] = path]
                     /\ handlerEntry(s, path)
  /\ UNCHANGED <<now, hits, resetTime, req, replies>>

\* the upload call settles; on success the create-task call is issued
UploadSettles(s, r) ==
  /\ pc[s] = "awaitUpload"
  /\ replies' = [replies EXCEPT ![s] = Append(@, r)]
  /\ LET imageUrl == uploadImageToRunningHub(r)
     IN IF imageUrl.threw
        THEN /\ resp' = [resp EXCEPT ![s] = @ \o catchBlock(imageUrl.message)]
             /\ pc' = [pc EXCEPT ![s] = "done"]
             /\ UNCHANGED calls
        ELSE /\ calls' = [calls EXCEPT ![s] = Append(@, CreateCall(imageUrl.value))]
             /\ pc' = [pc EXCEPT ![s] = "awaitCreate"]
             /\ UNCHANGED resp
  /\ UNCHANGED <<now, hits, resetTime, disk, req, filePath, params>>

\* the create-task call settles; on success the fetch-result call is issued
CreateSettles(s, r) ==
  /\ pc[s] = "awaitCreate"
  /\ replies' = [replies EXCEPT ![s] = Append(@, r)]
  /\ LET taskId == createTaskOnRunningHub(r)
     IN IF taskId.threw
        THEN /\ resp' = [resp EXCEPT ![s] = @ \o catchBlock(taskId.message)]
             /\ pc' = [pc EXCEPT ![s] = "done"]
             /\ UNCHANGED calls
        ELSE /\ calls' = [calls EXCEPT ![s] = Append(@, FetchCall(taskId.value))]
             /\ pc' = [pc EXCEPT ![s] = "awaitFetch"]
             /\ UNCHANGED resp
  /\ UNCHANGED <<now, hits, resetTime, disk, req, filePath, params>>

\* the fetch-result call settles; on success the 200 response is sent
FetchSettles(s, r) ==
  /\ pc[s] = "awaitFetch"
  /\ replies' = [replies EXCEPT ![s] = Append(@, r)]
  /\ LET resultUrl == getTaskResultFromRunningHub(r)
     IN IF resultUrl.threw
        THEN resp' = [resp EXCEPT ![s] = @ \o catchBlock(resultUrl.message)]
        ELSE resp' = [resp EXCEPT ![s] =
                        Append(@, Response(200, "", <<"Image processed successfully">>,
                                           resultUrl.value))]
  /\ pc' = [pc EXCEPT ![s] = "done"]
  /\ UNCHANGED <<now, hits, resetTime, disk, req, filePath, params, calls>>

\* Requests of one client arriving on one connection, one after another.
Next ==
  \/ Tick
  \/ \E s \in Sequential, a \in {Client}, input \in RequestInputs : Request(s, a, input)
  \/ \E s \in Sequential : Upload(s)
  \/ \E s \in Sequential, r \in UploadReplies : UploadSettles(s, r)
  \/ \E s \in Sequential, r \in CreateReplies : CreateSettles(s, r)
  \/ \E s \in Sequential, r \in FetchReplies : FetchSettles(s, r)

Spec == Init /\ [][Next]_vars

\* Every started step of a request completes: the multipart body is received
\* and every axios call settles.
Progress(s) ==
  \/ Upload(s)
  \/ \E r \in UploadReplies : UploadSettles(s, r)
  \/ \E r \in CreateReplies : CreateSettles(s, r)
  \/ \E r \in FetchReplies : FetchSettles(s, r)

LiveSpec == Spec /\ \A s \in Sequential : WF_vars(Progress(s))

\* Requests of several clients arriving on one connection, one after another.
ClientsNext ==
  \/ Tick
  \/ \E s \in Sequential, a \in Addrs, input \in RequestInputs : Request(s, a, input)
  \/ \E s \in Sequential : Upload(s)
  \/ \E s \in Sequential, r \in UploadReplies : UploadSettles(s, r)
  \/ \E s \in Sequential, r \in CreateReplies : CreateSettles(s, r)
  \/ \E s \in Sequential, r \in FetchReplies : FetchSettles(s, r)

ClientsSpec == Init /\ [][ClientsNext]_vars

\* Requests of one client in flight on all connections at once.
ConcNext ==
  \/ Tick
  \/ \E s \in Slots, a \in {Client}, input \in RequestInputs : Request(s, a, input)
  \/ \E s \in Slots : Upload(s)
  \/ \E s \in Slots, r \in UploadReplies : UploadSettles(s, r)
  \/ \E s \in Slots, r \in CreateReplies : CreateSettles(s, r)
  \/ \E s \in Slots, r \in FetchReplies : FetchSettles(s, r)

ConcSpec == Init /\ [][ConcNext]_vars

(* ------------------------------ claims -------------------------------- *)
Done(s) == pc[s] = "done"
Stored(s) == filePath[s] # NoPath
Limited(s) == resp[s] = <<TooMany>>
Body(s) == req[s].input.body
Files(s) == req[s].input.files

\* C1: an accepted image with a functionType that is not a key of the
\* registry is answered 400 "Invalid function type" and no provider call is
\* issued for it.
C1_UnknownFunctionTypeRejected ==
  \A s \in Slots :
    (/\ Stored(s)
     /\ ~noFunctionType(Body(s))
     /\ Body(s).functionType \notin DOMAIN comfyuiWorkflows)
    => /\ calls[s] = <<>>
       /\ Done(s) => resp[s] = <<Response(400, "Invalid function type", <<>>, "")>>

\* C2: a provider envelope with a code other than 0 ends the request with a
\* 500 response carrying the provider's msg, and no later provider call is
\* issued.
C2_ProviderFailureIs500 ==
  \A s \in Slots : \A i \in 1..Len(replies[s]) :
    (~replies[s][i].rejected /\ replies[s][i].code # 0)
    => /\ Done(s)
       /\ Len(calls[s]) = i
       /\ Len(resp[s]) = 1
       /\ resp[s][1].status = 500
       /\ resp[s][1].message = replies[s][i].msg

\* the limiter's store for address a changes exactly when a request of a
\* passes through the limiter
CountedStep(a) == hits'[a] # hits[a] \/ resetTime'[a] # resetTime[a]

\* C3: once 10 requests of an address are counted in its 120 s window, every
\* further request in the window gets the throttling message and nothing
\* else happens for it (no file stored, no provider call); a request after
\* the window has elapsed is let through to the upload receiver.
C3_Throttling ==
  [][\A a \in Addrs :
       /\ (CountedStep(a) /\ now < resetTime[a] /\ hits[a] >= 10)
          => \E s \in Slots :
               /\ req'[s].addr = a
               /\ pc'[s] = "done"
               /\ resp'[s] = <<TooMany>>
               /\ calls'[s] = <<>>
               /\ filePath'[s] = NoPath
               /\ disk' = disk
               /\ \A t \in Slots \ {s} :
                    pc'[t] = pc[t] /\ resp'[t] = resp[t] /\ calls'[t] = calls[t]
       /\ (CountedStep(a) /\ now >= resetTime[a])
          => \E s \in Slots :
               /\ req'[s].addr = a
               /\ pc'[s] = "multer"
               /\ resp'[s] = <<>>]_vars

C3_Witness ==
  \E s \in Slots :
    /\ Limited(s)
    /\ Done(s)
    /\ hits[req[s].addr] > 10
    /\ now < resetTime[req[s].addr]

\* C4: an upload above the 10 MiB limit is answered 413 "File size exceeds
\* limit".
C4_OversizeIs413 ==
  \A s \in Slots :
    (/\ Done(s)
     /\ ~Limited(s)
     /\ Files(s) # <<>>
     /\ fileFilter(Files(s)[1])
     /\ Files(s)[1].size > 10 * 1024 * 1024)
    => /\ Len(resp[s]) = 1
       /\ resp[s][1].status = 413
       /\ resp[s][1].error = "File size exceeds limit"

AllowedExtensions == { <<".", "jpeg">>, <<".", "jpg">>, <<".", "png">> }
AllowedContentTypes == { <<"image/", "jpeg">>, <<"image/", "jpg">>, <<"image/", "png">> }

\* C5: an upload whose content-type or extension is outside jpeg/jpg/png is
\* answered 400 "Invalid file format" and no provider call is issued.
C5_WrongTypeIs400 ==
  \A s \in Slots :
    (/\ Done(s)
     /\ ~Limited(s)
     /\ Files(s) # <<>>
     /\ \/ toLowerCase(extname(Files(s)[1].originalname)) \notin AllowedExtensions
        \/ Files(s)[1].mimetype \notin AllowedContentTypes)
    => /\ calls[s] = <<>>
       /\ Len(resp[s]) = 1
       /\ resp[s][1].status = 400
       /\ resp[s][1].error = "Invalid file format"

\* C6: the create-task call of a valid request carries the workflow's
\* default parameters overridden key by key by the caller's processingParams.
C6_MergedParamsReachProvider ==
  \A s \in Slots : \A i \in 1..Len(calls[s]) :
    (/\ calls[s][i].op = "create"
     /\ Body(s).functionType \in DOMAIN comfyuiWorkflows)
    => /\ "params" \in DOMAIN calls[s][i].body
       /\ calls[s][i].body.params =
            [k \in DOMAIN comfyuiWorkflows[Body(s).functionType].params
                   \cup DOMAIN processingParamsOf(Body(s)) |->
               IF k \in DOMAIN processingParamsOf(Body(s))
               THEN processingParamsOf(Body(s))[k]
               ELSE comfyuiWorkflows[Body(s).functionType].params[k]]

Responded(s) == Len(resp[s]) = 1 /\ resp[s][1].status = 200 /\ resp[s][1].resultUrl # ""
Errored(s) == Len(resp[s]) = 1 /\ resp[s][1].status >= 400 /\ resp[s][1].resultUrl = ""
Terminal(s) == Done(s) /\ (Responded(s) # Errored(s))

EmptyOutputs(s) ==
  /\ Len(replies[s]) = 3
  /\ ~replies[s][3].rejected
  /\ replies[s][3].code = 0
  /\ replies[s][3].data = <<>>

\* C8: a fetch-result envelope with code 0 and no outputs ends the request
\* with one error response and no success response.
C8_EmptyOutputsIsError ==
  \A s \in Slots :
    EmptyOutputs(s)
    => /\ Done(s)
       /\ Len(resp[s]) = 1
       /\ resp[s][1].status >= 400
       /\ resp[s][1].error # ""
       /\ resp[s][1].resultUrl = ""

C8_Witness == \E s \in Slots : EmptyOutputs(s) /\ Done(s)

\* C9: the stored files of any two requests have different paths.
C9_DistinctPaths ==
  \A s, t \in Slots :
    (s # t /\ Stored(s) /\ Stored(t)) => filePath[s] # filePath[t]

\* C10: once a request is finished, the file stored for it is gone.
C10_FileDeleted ==
  \A s \in Slots : (Done(s) /\ Stored(s)) => filePath[s] \notin disk
====
